---------------------------- MODULE Spec2Model ----------------------------
(***************************************************************************)
(* A model of vanadinite's userspace IPC channels                          *)
(* (src/kernel/vanadinite/src/syscall/channel.rs) and of the spin lock     *)
(* that guards a task record (src/sync/mutex.rs), and of the device-tree   *)
(* reader's find_node (src/fdt/src/node.rs).                               *)
(*                                                                         *)
(* Four specifications share the module:                                  *)
(*   Spec       the channel system calls, one call at a time (the calls    *)
(*              of a sequence); send_message takes two steps, so that the  *)
(*              point between its detach and its attach is a state.        *)
(*   SpecMutex  threads calling SpinMutex::lock, try_lock and unlock, one  *)
(*              atomic memory operation per step.                          *)
(*   SpecSMP    create_channel run by several harts at once, one           *)
(*              statement per step, the task locks being SpinMutexes.      *)
(*   SpecFdt    find_node applied to the well-formed structure blocks of   *)
(*              small trees, for a set of paths.                           *)
(***************************************************************************)
EXTENDS Integers, Sequences, FiniteSets, TLC

(***************************************************************************)
(* Bounds of the model.                                                    *)
(***************************************************************************)
\* Threads that contend for one SpinMutex in SpecMutex.
NumThreads == 3
\* Tasks in the task table TASKS; one more Tid exists that names no task.
NumTasks == 3
\* Endpoints a task may hold: create_channel is not taken beyond it.
MaxChannels == 2
\* Entries a message_queue may hold: no notification is queued beyond it.
MaxQueue == 2
\* Kernel allocations (message-id counters and shared regions) the machine has
\* memory for: of a machine on which all tasks run, and of one on which the
\* last task is dead when the run starts.
MemorySmall == 2
MemoryLarge == 3
\* The modelled width of usize, in bits: MessageIds are 0 .. 2^WordBits - 1
\* and fetch_add wraps at 2^WordBits as AtomicUsize::fetch_add wraps at 2^64.
WordBits == 2

None == "none"

VARIABLES
    \* ---- SpecMutex: one SpinMutex and the threads using it
    mutex,      \* SpinMutex.lock, the AtomicBool
    tpc,        \* per thread: where it is in lock()/try_lock()/unlock()
    tret,       \* per thread: what its last try_lock() returned
    tset,       \* per thread: whether its last try_lock() stored true over false
    \* ---- the task table and what the channel system calls touch
    state,                      \* Task.state: Running, Blocked, Dead
    promiscuous,                \* Task.promiscuous
    channels,                   \* Task.channels: ChannelId -> UserspaceChannel
    message_queue,              \* Task.message_queue
    incoming_channel_request,   \* Task.incoming_channel_request
    memory_manager,             \* Task.memory_manager: the mapped channel regions
    counters,                   \* the Arc<AtomicUsize> objects, by allocation order
    frames,                     \* the physical backings alive: backing -> frames
    memory,                     \* the kernel allocations the machine has memory for
    sending,                    \* <<the send_message between its detach and its attach>>, or <<>>
    panicked,                   \* the kernel hit unwrap() on None / unreachable!()
    \* ---- SpecSMP: the harts running create_channel, and the task locks
    task_lock,  \* per task: the SpinMutex.lock of its record in TASKS
    hart,       \* per hart: where it is in create_channel, and its locals
    \* ---- SpecFdt: a device-tree structure block and a find_node call on it
    fdt         \* the tree, its structure block, the path, and what find_node returned

mutex_vars == <<mutex, tpc, tret, tset>>

kernel_vars == <<state, promiscuous, channels, message_queue, incoming_channel_request,
                 memory_manager, counters, frames, memory, sending, panicked>>

smp_vars == <<task_lock, hart>>

fdt_vars == <<fdt>>

vars == <<mutex, tpc, tret, tset,
          state, promiscuous, channels, message_queue, incoming_channel_request,
          memory_manager, counters, frames, memory, sending, panicked,
          task_lock, hart, fdt>>

(***************************************************************************)
(* Values                                                                  *)
(***************************************************************************)
\* The task table TASKS, and the Tids a caller can name (one names no task).
TASKS == 1..NumTasks
Tids == 1..(NumTasks + 1)

\* usize values a MessageId can take, and the arguments the calls are tried with.
WordMax == 2^WordBits - 1
MessageIds == 0..WordMax
ChannelIds == 0..MaxChannels
Sizes == {0, 100}
Lens == {0, 4096, 4097}

\* SyscallResult and KError
Ok(v) == [tag |-> "Ok", val |-> v]
Err(e) == [tag |-> "Err", val |-> e]
InvalidArgument(n) == <<"InvalidArgument", n>>
InvalidRecipient == <<"InvalidRecipient">>

\* BTreeMap: insert, remove, the empty map
EmptyMap == [k \in {} |-> None]
Insert(m, k, v) == [x \in (DOMAIN m) \cup {k} |-> IF x = k THEN v ELSE m[x]]
RemoveKeepsEntry(m, k) == m   \* a remove that only looks the key up
Remove(m, k) == [x \in (DOMAIN m) \ {k} |-> m[x]]
SetMax(S) == CHOOSE x \in S : \A y \in S : y <= x
SetMin(S) == CHOOSE x \in S : \A y \in S : x <= y

(***************************************************************************)
(* The shared-region broker (mem::manager, not among the source files):    *)
(* modelled from the specification, section 4.2.                           *)
(***************************************************************************)
KiB4 == 4096
\* Virtual addresses the manager hands out: one slot per region.
RegionStride == 4 * KiB4
AddressSlots == {k * RegionStride : k \in 1..(MemoryLarge + 1)}

\* A page count that rounds down.
NPagesRoundedDown(size) == size \div KiB4

\* utils::round_up_to_next(size, 4.kib()) / 4.kib(): n_pages = ceil(size / 4096)
NPages(size) == ((size + KiB4 - 1) \div KiB4)

\* The address the manager picks for a new region of a task, and a fresh backing.
FreeAddress(mm) == SetMin(AddressSlots \ DOMAIN mm)
FreshBacking == SetMin((1..(MemoryLarge + 1)) \ DOMAIN frames)

\* Range<VirtualAddress>
Range(start, n_pages) == [start |-> start, end |-> start + n_pages * KiB4]

\* alloc_shared(task, n_pages, ..): a new backing of n_pages frames mapped at a
\* fresh address; yields the manager, the frames and the range.
alloc_shared_region(mm, n_pages) ==
    LET a == FreeAddress(mm)
        b == FreshBacking
    IN  [mm |-> Insert(mm, a, [backing |-> b, pages |-> n_pages]),
         frames |-> Insert(frames, b, n_pages),
         range |-> Range(a, n_pages)]

\* detach(task, start): the mapping is removed, the backing is kept.
detach_region(mm, start) == Remove(mm, start)

\* attach_shared(task, .., backing): the backing mapped at a fresh address.
apply_shared_region(mm, b) ==
    LET a == FreeAddress(mm)
    IN  [mm |-> Insert(mm, a, [backing |-> b, pages |-> frames[b]]),
         range |-> Range(a, frames[b])]

\* Whether the kernel has memory for one more allocation (a counter, a region).
MemoryLeft == Len(counters) + Cardinality(DOMAIN frames) < memory

\* Backings mapped in a task's address space.
BackingsOf(mm) == {mm[a].backing : a \in DOMAIN mm}

(***************************************************************************)
(* src/kernel/vanadinite/src/syscall/channel.rs                            *)
(***************************************************************************)
\* UserspaceChannel
UserspaceChannel(other_task, other_channel_id, counter) ==
    [other_task |-> other_task,
     other_channel_id |-> other_channel_id,
     message_id_counter |-> counter,
     write_regions |-> EmptyMap,
     read_regions |-> EmptyMap]

\* AtomicUsize::fetch_add(1): the value stored; it wraps at the word size.
fetch_add(v) == (v + 1) % (2^WordBits)

\* A channel id allocation that hands out the greatest id in use again.
NextChannelIdNoIncrement(chans) ==
    IF DOMAIN chans = {} THEN 0 ELSE SetMax(DOMAIN chans)

\* channels.last_key_value().map(|(id, _)| id.value() + 1).unwrap_or(0)
NextChannelId(chans) ==
    IF DOMAIN chans = {} THEN 0 ELSE SetMax(DOMAIN chans) + 1

\* The endpoint create_channel installs in the caller (from_channel).
FromChannel(to, to_channel_id, counter) ==
    UserspaceChannel(to, to_channel_id, counter)

\* The endpoint create_channel installs in the target (to_channel).
ToChannel(current_tid, from_channel_id, counter) ==
    UserspaceChannel(current_tid, from_channel_id, counter)

\* A create_channel that sets its target Running without looking for its request.
RequestPendingAlways(from, to) == TRUE

\* create_channel: `if from.incoming_channel_request.remove(&to)`
RequestPending(from, to) == to \in incoming_channel_request[from]

\* VecDeque::push_back, and a push_front that puts the entry at the tail.
push_back(queue, entry) == Append(queue, entry)
push_front_at_tail(queue, entry) == Append(queue, entry)

\* VecDeque::push_front
push_front(queue, entry) == <<entry>> \o queue

\* What a call returns, beside Ok(..) and Err(..): send_message going on to its
\* second part, and a kernel panic (unwrap() on None).
Pending == [tag |-> "Pending", val |-> <<>>]
Panic == [tag |-> "Panic", val |-> <<>>]

\* A call that returns without touching anything.
NoEffect ==
    UNCHANGED <<state, promiscuous, channels, message_queue, incoming_channel_request,
                memory_manager, counters, frames, sending, panicked>>

\* A task can make a system call when it is Running and the kernel is up; one
\* call runs at a time.
CanCall(task) ==
    /\ state[task] = "Running"
    /\ sending = <<>>
    /\ ~panicked

KernelInit ==
    /\ \/ /\ state = [t \in TASKS |-> "Running"]
          /\ memory = MemorySmall
       \/ /\ state = [t \in TASKS |-> IF t = NumTasks THEN "Dead" ELSE "Running"]
          /\ memory = MemoryLarge
    /\ promiscuous = [t \in TASKS |-> t # 1]
    /\ channels = [t \in TASKS |-> EmptyMap]
    /\ message_queue = [t \in TASKS |-> <<>>]
    /\ incoming_channel_request = [t \in TASKS |-> {}]
    /\ memory_manager = [t \in TASKS |-> EmptyMap]
    /\ counters = <<>>
    /\ frames = EmptyMap
    /\ sending = <<>>
    /\ panicked = FALSE

MutexIdle ==
    /\ mutex = FALSE
    /\ tpc = [t \in 1..NumThreads |-> "idle"]
    /\ tret = [t \in 1..NumThreads |-> None]
    /\ tset = [t \in 1..NumThreads |-> FALSE]

\* No hart is in a call; every task lock is SpinMutex::INIT.
SmpIdle ==
    /\ task_lock = [t \in TASKS |-> FALSE]
    /\ hart = [h \in TASKS |->
                 [pc |-> "idle", to |-> h, from_channel_id |-> 0, to_channel_id |-> 0,
                  counter |-> 0, ret |-> Pending]]

\* No device tree is being read.
FdtIdle == fdt = [pc |-> "idle"]

Init == KernelInit /\ MutexIdle /\ SmpIdle /\ FdtIdle

\* A request_channel that looks at the target's promiscuous flag before its state.
request_channel_result_flag_first(from, to) ==
    IF from = to THEN Err(InvalidArgument(0))
    ELSE IF to \notin TASKS THEN Err(InvalidRecipient)
    ELSE IF ~promiscuous[to] THEN Ok(<<"ChannelRequestDenied">>)
    ELSE IF state[to] = "Dead" THEN Err(InvalidRecipient)
    ELSE Ok(<<"default">>)

\* request_channel(from, to): the value returned, current_tid being from's Tid.
request_channel_result(from, to) ==
    IF from = to THEN Err(InvalidArgument(0))
    ELSE IF to \notin TASKS THEN Err(InvalidRecipient)
    ELSE IF state[to] = "Dead" THEN Err(InvalidRecipient)
    ELSE IF ~promiscuous[to] THEN Ok(<<"ChannelRequestDenied">>)
    ELSE Ok(<<"default">>)

\* A request_channel that files the request and blocks the caller before it
\* looks at the target's state and flag.
RequestChannelEager(from, to) ==
    /\ CanCall(from)
    /\ UNCHANGED <<mutex_vars, smp_vars, fdt_vars, memory>>
    /\ IF from = to \/ to \notin TASKS
       THEN NoEffect
       ELSE /\ Len(message_queue[to]) < MaxQueue
            /\ incoming_channel_request' =
                  [incoming_channel_request EXCEPT ![to] = @ \cup {from}]
            /\ message_queue' =
                  [message_queue EXCEPT ![to] =
                      push_back(@, [sender |-> "kernel", msg |-> <<"ChannelRequest", from>>])]
            /\ state' = [state EXCEPT ![from] = "Blocked"]
            /\ UNCHANGED <<promiscuous, channels, memory_manager, counters, frames,
                           sending, panicked>>

\* request_channel(from, to): what it does.
RequestChannel(from, to) ==
    /\ CanCall(from)
    /\ UNCHANGED <<mutex_vars, smp_vars, fdt_vars, memory>>
    /\ IF request_channel_result(from, to) # Ok(<<"default">>)
       THEN NoEffect
       ELSE /\ Len(message_queue[to]) < MaxQueue
            /\ incoming_channel_request' =
                  [incoming_channel_request EXCEPT ![to] = @ \cup {from}]
            /\ message_queue' =
                  [message_queue EXCEPT ![to] =
                      push_back(@, [sender |-> "kernel", msg |-> <<"ChannelRequest", from>>])]
            /\ state' = [state EXCEPT ![from] = "Blocked"]
            /\ UNCHANGED <<promiscuous, channels, memory_manager, counters, frames,
                           sending, panicked>>

\* create_channel(from, to): the value returned, current_tid being from's Tid.
create_channel_result(from, to) ==
    IF from = to THEN Err(InvalidArgument(0))
    ELSE IF to \notin TASKS THEN Err(InvalidRecipient)
    ELSE IF state[to] = "Dead" THEN Err(InvalidRecipient)
    ELSE Ok(<<NextChannelId(channels[from])>>)

\* create_channel(from, to): what it does.
CreateChannel(from, to) ==
    /\ CanCall(from)
    /\ UNCHANGED <<mutex_vars, smp_vars, fdt_vars, memory>>
    /\ IF create_channel_result(from, to).tag = "Err"
       THEN NoEffect
       ELSE LET counter == Len(counters) + 1
                from_channel_id == NextChannelId(channels[from])
                to_channel_id == NextChannelId(channels[to])
                from_channel == FromChannel(to, to_channel_id, counter)
                to_channel == ToChannel(from, from_channel_id, counter)
                unblock == RequestPending(from, to)
            IN  /\ MemoryLeft
                /\ Cardinality(DOMAIN channels[from]) < MaxChannels
                /\ Cardinality(DOMAIN channels[to]) < MaxChannels
                /\ Len(message_queue[to]) < MaxQueue
                /\ counters' = Append(counters, 0)
                /\ incoming_channel_request' =
                      [incoming_channel_request EXCEPT ![from] = @ \ {to}]
                /\ state' = IF unblock THEN [state EXCEPT ![to] = "Running"] ELSE state
                /\ channels' =
                      [channels EXCEPT
                          ![from] = Insert(@, from_channel_id, from_channel),
                          ![to] = Insert(@, to_channel_id, to_channel)]
                /\ message_queue' =
                      [message_queue EXCEPT ![to] =
                          push_front(@, [sender |-> "kernel",
                                         msg |-> <<"ChannelOpened", to_channel_id>>])]
                /\ UNCHANGED <<promiscuous, memory_manager, frames, sending, panicked>>

\* UserspaceChannel::next_message_id: the id handed out is the counter's
\* value before the fetch_add.
next_message_id(channel) == counters[channel.message_id_counter]

\* send_message: `range.end.as_usize() - range.start.as_usize() < len`
RangeTooShort(range, len) == range.end - range.start < len

\* A send_message that records the length of the region, not the declared len.
ReadRegionWhole(region, len) == [range |-> region, len |-> region.end - region.start]

\* send_message: the entry `(region, len)` inserted into the other endpoint's
\* read_regions.
ReadRegion(region, len) == [range |-> region, len |-> len]

\* A read_message that takes the entry of the greatest key.
LastReadRegion(read_regions) == SetMax(DOMAIN read_regions)

\* read_message: `channel.read_regions.iter().next()`, the entry of the least key.
FirstReadRegion(read_regions) == SetMin(DOMAIN read_regions)

\* create_message(task, channel_id, size): the value returned.
create_message_result(task, channel_id, size) ==
    IF channel_id \notin DOMAIN channels[task] THEN Err(InvalidArgument(0))
    ELSE Ok(<<next_message_id(channels[task][channel_id]),
              FreeAddress(memory_manager[task]),
              NPages(size) * KiB4>>)

\* create_message(task, channel_id, size): what it does.
CreateMessage(task, channel_id, size) ==
    /\ CanCall(task)
    /\ UNCHANGED <<mutex_vars, smp_vars, fdt_vars, memory>>
    /\ IF channel_id \notin DOMAIN channels[task]
       THEN NoEffect
       ELSE LET channel == channels[task][channel_id]
                n_pages == NPages(size)
                message_id == next_message_id(channel)
                alloc == alloc_shared_region(memory_manager[task], n_pages)
            IN  /\ MemoryLeft
                /\ counters' = [counters EXCEPT ![channel.message_id_counter] = fetch_add(@)]
                /\ memory_manager' = [memory_manager EXCEPT ![task] = alloc.mm]
                /\ frames' = alloc.frames
                /\ channels' =
                      [channels EXCEPT ![task][channel_id].write_regions =
                          Insert(@, message_id, alloc.range)]
                /\ UNCHANGED <<state, promiscuous, message_queue,
                               incoming_channel_request, sending, panicked>>

\* send_message(task, channel_id, message_id, len): the value returned by its
\* first part, which ends with `task.memory_manager.dealloc_region(range.start)`.
send_message_result(task, channel_id, message_id, len) ==
    IF channel_id \notin DOMAIN channels[task] THEN Err(InvalidArgument(0))
    ELSE IF message_id \notin DOMAIN channels[task][channel_id].write_regions
    THEN Err(InvalidArgument(1))
    ELSE IF RangeTooShort(channels[task][channel_id].write_regions[message_id], len)
    THEN Err(InvalidArgument(2))
    ELSE Pending

\* send_message, first part: what it does.
SendMessage(task, channel_id, message_id, len) ==
    /\ CanCall(task)
    /\ UNCHANGED <<mutex_vars, smp_vars, fdt_vars, memory>>
    /\ LET res == send_message_result(task, channel_id, message_id, len) IN
       IF res \in {Err(InvalidArgument(0)), Err(InvalidArgument(1))}
       THEN NoEffect
       ELSE LET channel == channels[task][channel_id]
                range == channel.write_regions[message_id]
                removed == [channels EXCEPT ![task][channel_id].write_regions =
                               Remove(@, message_id)]
            IN  IF res = Err(InvalidArgument(2))
                THEN /\ channels' = removed
                     /\ UNCHANGED <<state, promiscuous, message_queue,
                                    incoming_channel_request, memory_manager, counters,
                                    frames, sending, panicked>>
                ELSE /\ channels' = removed
                     /\ memory_manager' =
                           [memory_manager EXCEPT ![task] = detach_region(@, range.start)]
                     /\ sending' = <<[task |-> task,
                                     channel_id |-> channel_id,
                                     other_task |-> channel.other_task,
                                     other_channel_id |-> channel.other_channel_id,
                                     message_id |-> message_id,
                                     len |-> len,
                                     backing |-> memory_manager[task][range.start].backing]>>
                     /\ UNCHANGED <<state, promiscuous, message_queue,
                                    incoming_channel_request, counters, frames, panicked>>

\* send_message, second part, from `TASKS.get(channel.other_task).unwrap()`:
\* the value returned.
send_message_attach_result(call) ==
    IF call.other_channel_id \in DOMAIN channels[call.other_task]
    THEN Ok(<<>>)
    ELSE Panic   \* `other.channels.get_mut(..).unwrap()` on None

\* send_message, second part: the backing is mapped into the other task and
\* recorded in its endpoint.
SendMessageAttach ==
    /\ sending # <<>>
    /\ ~panicked
    /\ UNCHANGED <<mutex_vars, smp_vars, fdt_vars, memory>>
    /\ LET call == sending[1]
           other == call.other_task
           applied == apply_shared_region(memory_manager[other], call.backing)
       IN  /\ memory_manager' = [memory_manager EXCEPT ![other] = applied.mm]
           /\ sending' = <<>>
           /\ IF send_message_attach_result(call) = Ok(<<>>)
              THEN /\ channels' =
                         [channels EXCEPT ![other][call.other_channel_id].read_regions =
                             Insert(@, call.message_id,
                                    ReadRegion(applied.range, call.len))]
                   /\ UNCHANGED panicked
              ELSE /\ panicked' = TRUE
                   /\ UNCHANGED channels
           /\ UNCHANGED <<state, promiscuous, message_queue, incoming_channel_request,
                          counters, frames>>

\* read_message(task, channel_id): the value returned; it does nothing else.
read_message_result(task, channel_id) ==
    IF channel_id \notin DOMAIN channels[task] THEN Err(InvalidArgument(0))
    ELSE LET read_regions == channels[task][channel_id].read_regions IN
         IF DOMAIN read_regions = {}
         THEN Ok(<<0, 0, 0>>)
         ELSE LET id == FirstReadRegion(read_regions)
              IN  Ok(<<id, read_regions[id].range.start, read_regions[id].len>>)

ReadMessage(task, channel_id) ==
    /\ CanCall(task)
    /\ UNCHANGED <<mutex_vars, smp_vars, fdt_vars, memory>>
    /\ NoEffect

\* retire_message(task, channel_id, message_id): the value returned.
retire_message_result(task, channel_id, message_id) ==
    IF channel_id \notin DOMAIN channels[task] THEN Err(InvalidArgument(0))
    ELSE IF message_id \notin DOMAIN channels[task][channel_id].read_regions
    THEN Err(InvalidArgument(1))
    ELSE Ok(<<>>)

\* A retire_message that removes the entry and leaves its region mapped.
RetireMessageNoDealloc(task, channel_id, message_id) ==
    /\ CanCall(task)
    /\ UNCHANGED <<mutex_vars, smp_vars, fdt_vars, memory>>
    /\ IF retire_message_result(task, channel_id, message_id).tag = "Err"
       THEN NoEffect
       ELSE /\ channels' =
                  [channels EXCEPT ![task][channel_id].read_regions =
                      Remove(@, message_id)]
            /\ UNCHANGED <<state, promiscuous, message_queue, incoming_channel_request,
                           memory_manager, frames, counters, sending, panicked>>

\* retire_message(task, channel_id, message_id): what it does.
RetireMessage(task, channel_id, message_id) ==
    /\ CanCall(task)
    /\ UNCHANGED <<mutex_vars, smp_vars, fdt_vars, memory>>
    /\ IF retire_message_result(task, channel_id, message_id).tag = "Err"
       THEN NoEffect
       ELSE LET region == channels[task][channel_id].read_regions[message_id]
                mapping == memory_manager[task][region.range.start]
            IN  /\ channels' =
                      [channels EXCEPT ![task][channel_id].read_regions =
                          Remove(@, message_id)]
                /\ memory_manager' =
                      [memory_manager EXCEPT ![task] = Remove(@, region.range.start)]
                /\ frames' = Remove(frames, mapping.backing)
                /\ UNCHANGED <<state, promiscuous, message_queue,
                               incoming_channel_request, counters, sending, panicked>>

\* Task death (the teardown path, not among the source files; modelled from
\* the specification, sections 3 and 7): the task's endpoints are torn down,
\* their regions are deallocated, and the requesters blocked on it run again.
TaskDeath(t) ==
    /\ state[t] # "Dead"
    /\ sending = <<>>
    /\ ~panicked
    /\ UNCHANGED <<mutex_vars, smp_vars, fdt_vars, memory>>
    /\ state' = [u \in TASKS |->
                    IF u = t THEN "Dead"
                    ELSE IF u \in incoming_channel_request[t] /\ state[u] = "Blocked"
                         THEN "Running"
                         ELSE state[u]]
    /\ channels' = [channels EXCEPT ![t] = EmptyMap]
    /\ incoming_channel_request' = [incoming_channel_request EXCEPT ![t] = {}]
    /\ frames' = [b \in (DOMAIN frames) \ BackingsOf(memory_manager[t]) |-> frames[b]]
    /\ memory_manager' = [memory_manager EXCEPT ![t] = EmptyMap]
    /\ UNCHANGED <<promiscuous, message_queue, counters, sending, panicked>>

\* The channel ids a task is made to call with: those of its endpoints, and
\* one that names none.
ChannelArgs(task) == (DOMAIN channels[task]) \cup {NextChannelId(channels[task])}

\* The message ids a call on (task, channel_id) is made with: the keys of the
\* endpoint's two maps, the id its counter hands out next, and 0.
MessageArgs(task, channel_id) ==
    IF channel_id \in DOMAIN channels[task]
    THEN (DOMAIN channels[task][channel_id].write_regions)
            \cup (DOMAIN channels[task][channel_id].read_regions)
            \cup {next_message_id(channels[task][channel_id]), 0}
    ELSE {0}

Next ==
    \/ \E from \in TASKS, to \in Tids : RequestChannel(from, to)
    \/ \E from \in TASKS, to \in Tids : CreateChannel(from, to)
    \/ \E task \in TASKS : \E channel_id \in ChannelArgs(task), size \in Sizes :
          CreateMessage(task, channel_id, size)
    \/ \E task \in TASKS : \E channel_id \in ChannelArgs(task) :
          \E message_id \in MessageArgs(task, channel_id), len \in Lens :
             SendMessage(task, channel_id, message_id, len)
    \/ SendMessageAttach
    \/ \E task \in TASKS : \E channel_id \in ChannelArgs(task) :
          ReadMessage(task, channel_id)
    \/ \E task \in TASKS : \E channel_id \in ChannelArgs(task) :
          \E message_id \in MessageArgs(task, channel_id) :
             RetireMessage(task, channel_id, message_id)
    \/ \E t \in TASKS : TaskDeath(t)

Spec == Init /\ [][Next]_vars

(***************************************************************************)
(* Properties of the channel system calls (checked under Spec)             *)
(***************************************************************************)
\* The endpoints of the channel pair whose message-id counter is k.
EndpointsOf(k) ==
    {e \in TASKS \X ChannelIds :
        /\ e[2] \in DOMAIN channels[e[1]]
        /\ channels[e[1]][e[2]].message_id_counter = k}

\* The maps of pair k that hold message id m: <<task, channel id, which map>>.
HoldersOf(k, m) ==
    {<<e[1], e[2], "outbound">> : e \in
        {x \in EndpointsOf(k) : m \in DOMAIN channels[x[1]][x[2]].write_regions}}
    \cup
    {<<e[1], e[2], "inbound">> : e \in
        {x \in EndpointsOf(k) : m \in DOMAIN channels[x[1]][x[2]].read_regions}}

(***************************************************************************)
(* C1: every MessageId of a channel pair is a key of at most one of the    *)
(* four maps of the pair (the outbound and the inbound map of each of its  *)
(* two endpoints): a message is pending at its sender, pending at its      *)
(* receiver, or absent, never in two places at once.                       *)
(***************************************************************************)
C1_MessageInOnePlace ==
    \A k \in DOMAIN counters : \A m \in MessageIds :
        Cardinality(HoldersOf(k, m)) <= 1

(***************************************************************************)
(* C3, as claimed: once A's request_channel(B) has blocked A (A is Blocked *)
(* and in B.incoming_channel_request), A runs again when, and only when,   *)
(* B executes create_channel(A).                                           *)
(***************************************************************************)
BlockedOn(a, b) ==
    /\ a # b
    /\ state[a] = "Blocked"
    /\ a \in incoming_channel_request[b]

C3_UnblockedOnlyByCreateChannel ==
    [][\A a, b \in TASKS :
          (BlockedOn(a, b) /\ state'[a] = "Running") => CreateChannel(b, a)]_vars

(***************************************************************************)
(* C3, amended: a successful request_channel(A -> B) leaves A Blocked and  *)
(* in B.incoming_channel_request; from then on A runs again only when B    *)
(* executes create_channel(A) or B dies; create_channel(B -> A) in one     *)
(* step makes A Running, removes A from B.incoming_channel_request and     *)
(* installs one endpoint in each task. No other step touches A's state or  *)
(* its pending request.                                                    *)
(***************************************************************************)
C3_Rendezvous ==
    [][\A a, b \in TASKS :
          /\ (request_channel_result(a, b) = Ok(<<"default">>) /\ RequestChannel(a, b))
                => (state'[a] = "Blocked" /\ a \in incoming_channel_request'[b])
          /\ (BlockedOn(a, b) /\ state'[a] = "Running")
                => (CreateChannel(b, a) \/ TaskDeath(b))
          /\ (BlockedOn(a, b) /\ CreateChannel(b, a))
                => /\ state'[a] = "Running"
                   /\ a \notin incoming_channel_request'[b]
                   /\ Cardinality(DOMAIN channels'[a]) = Cardinality(DOMAIN channels[a]) + 1
                   /\ Cardinality(DOMAIN channels'[b]) = Cardinality(DOMAIN channels[b]) + 1
          /\ (BlockedOn(a, b) /\ ~CreateChannel(b, a) /\ ~TaskDeath(b) /\ ~TaskDeath(a))
                => (state'[a] = "Blocked" /\ a \in incoming_channel_request'[b])]_vars

\* A was blocked on B's queue and B's create_channel(A) has let it run: B's
\* queue holds A's request, A's queue starts with the ChannelOpened.
C3_Witness ==
    \E a, b \in TASKS :
        /\ a # b
        /\ state[a] = "Running"
        /\ a \notin incoming_channel_request[b]
        /\ \E i \in DOMAIN message_queue[b] :
              message_queue[b][i].msg = <<"ChannelRequest", a>>
        /\ message_queue[a] # <<>>
        /\ message_queue[a][1].msg[1] = "ChannelOpened"
        /\ \E c \in DOMAIN channels[a] : channels[a][c].other_task = b

(***************************************************************************)
(* C4: send_message with len greater than the byte length of the created   *)
(* region returns Err(InvalidArgument(2)); on that failure the entry is    *)
(* removed from the sender's outbound map and the region is deallocated:   *)
(* no longer mapped in the sender, its frames released.                    *)
(***************************************************************************)
C4_TooLongSendDeallocates ==
    [][\A t \in TASKS, c \in ChannelIds, m \in MessageIds, len \in Lens :
          (/\ c \in DOMAIN channels[t]
           /\ m \in DOMAIN channels[t][c].write_regions
           /\ len > channels[t][c].write_regions[m].end
                      - channels[t][c].write_regions[m].start
           /\ SendMessage(t, c, m, len))
          => LET start == channels[t][c].write_regions[m].start
             IN  /\ send_message_result(t, c, m, len) = Err(InvalidArgument(2))
                 /\ m \notin DOMAIN channels'[t][c].write_regions
                 /\ start \notin DOMAIN memory_manager'[t]
                 /\ memory_manager[t][start].backing \notin DOMAIN frames']_vars

(***************************************************************************)
(* C5: send_message on an endpoint whose peer task is Dead, or whose peer  *)
(* no longer has the endpoint named by other_channel_id, returns           *)
(* Err(InvalidRecipient): nothing is inserted into an inbound map or       *)
(* mapped into the peer, the backing frames are released, and the kernel   *)
(* does not panic.                                                         *)
(***************************************************************************)
PeerGone(call) ==
    \/ state[call.other_task] = "Dead"
    \/ call.other_channel_id \notin DOMAIN channels[call.other_task]

C5_DeadPeerSendRejected ==
    [][(sending # <<>> /\ PeerGone(sending[1]))
          => /\ send_message_attach_result(sending[1]) = Err(InvalidRecipient)
             /\ ~panicked'
             /\ memory_manager'[sending[1].other_task] = memory_manager[sending[1].other_task]
             /\ channels' = channels
             /\ sending[1].backing \notin DOMAIN frames']_vars

(***************************************************************************)
(* C8: every endpoint E stored at id c in task T, with other_task = U and  *)
(* other_channel_id = d, U being alive, has its counterpart: U holds an    *)
(* endpoint at d whose other_task is T and whose other_channel_id is c,    *)
(* and both reference the same message-id counter; and the value           *)
(* create_channel returns is the id of the endpoint it installed in the    *)
(* caller.                                                                 *)
(***************************************************************************)
CrossReferenced ==
    \A t \in TASKS : \A c \in DOMAIN channels[t] :
        LET e == channels[t][c]
            u == e.other_task
            d == e.other_channel_id
        IN  (u \in TASKS /\ state[u] # "Dead")
            => /\ d \in DOMAIN channels[u]
               /\ channels[u][d].other_task = t
               /\ channels[u][d].other_channel_id = c
               /\ channels[u][d].message_id_counter = e.message_id_counter

C8_EndpointsCrossReferenced ==
    /\ []CrossReferenced
    /\ [][\A from \in TASKS, to \in TASKS :
             (create_channel_result(from, to).tag = "Ok" /\ CreateChannel(from, to))
             => LET id == create_channel_result(from, to).val[1]
                IN  /\ id \notin DOMAIN channels[from]
                    /\ id \in DOMAIN channels'[from]
                    /\ channels'[from][id].other_task = to
                    /\ \A c \in DOMAIN channels[from] :
                          channels'[from][c] = channels[from][c]]_vars

\* A task holds two endpoints, to two different live tasks.
C8_Witness ==
    \E t \in TASKS : \E c, d \in DOMAIN channels[t] :
        /\ c # d
        /\ channels[t][c].other_task # channels[t][d].other_task
        /\ state[channels[t][c].other_task] # "Dead"
        /\ state[channels[t][d].other_task] # "Dead"

(***************************************************************************)
(* C9: no MessageId is handed out twice within a channel pair: the ids     *)
(* create_message returns on the endpoints sharing a counter increase in   *)
(* allocation order, also when the counter has reached the maximum value   *)
(* of the machine word (the next id does not wrap around).                 *)
(***************************************************************************)
C9_MessageIdsIncrease ==
    [][\A t \in TASKS, c \in ChannelIds, size \in Sizes :
          (c \in DOMAIN channels[t] /\ CreateMessage(t, c, size))
          => LET k == channels[t][c].message_id_counter
             IN  \* the id the pair hands out next exceeds the one just returned
                 counters'[k] > create_message_result(t, c, size).val[1]]_vars

(***************************************************************************)
(* C10: a successful send_message(channel_id, message_id, len) moves the   *)
(* message: message_id leaves the sender endpoint's outbound map, the      *)
(* backing frames are unmapped from the sender and mapped into the peer,   *)
(* the peer endpoint (other_task, other_channel_id) gains                  *)
(* inbound[message_id] with exactly the declared len; at no point are the  *)
(* frames mapped in both address spaces.                                   *)
(***************************************************************************)
\* No backing is mapped in two tasks, and a backing held by send_message
\* between its two parts is mapped in none.
MappedOnce ==
    /\ \A t, u \in TASKS :
          t # u => BackingsOf(memory_manager[t]) \cap BackingsOf(memory_manager[u]) = {}
    /\ sending # <<>> =>
          \A t \in TASKS : sending[1].backing \notin BackingsOf(memory_manager[t])

\* The step is the first part of a send_message that goes on to its second.
SendDetaches == sending = <<>> /\ sending' # <<>>

\* The step is the second part of a send_message, returning Ok.
SendAttaches == sending # <<>> /\ sending' = <<>> /\ ~panicked'

C10_SendMovesMessage ==
    /\ []MappedOnce
    /\ [][/\ SendDetaches =>
               LET call == sending'[1]
                   channel == channels[call.task][call.channel_id]
                   start == channel.write_regions[call.message_id].start
               IN  /\ SendMessage(call.task, call.channel_id, call.message_id, call.len)
                   /\ call.message_id \notin
                         DOMAIN channels'[call.task][call.channel_id].write_regions
                   /\ call.backing = memory_manager[call.task][start].backing
                   /\ call.backing \in DOMAIN frames'
                   /\ call.other_task = channel.other_task
                   /\ call.other_channel_id = channel.other_channel_id
          /\ SendAttaches =>
               LET call == sending[1]
                   inbound == channels'[call.other_task][call.other_channel_id].read_regions
               IN  /\ send_message_attach_result(call) = Ok(<<>>)
                   /\ call.message_id \in DOMAIN inbound
                   /\ inbound[call.message_id].len = call.len
                   /\ inbound[call.message_id].range.start
                         \in DOMAIN memory_manager'[call.other_task]
                   /\ memory_manager'[call.other_task]
                         [inbound[call.message_id].range.start].backing = call.backing
                   /\ call.backing \notin BackingsOf(memory_manager'[call.task])
                   /\ call.message_id \notin
                         DOMAIN channels'[call.task][call.channel_id].write_regions]_vars

\* A message of declared length 4096 has arrived: it is in the receiver's
\* inbound map, mapped in the receiver, and in no outbound map of the pair.
C10_Witness ==
    \E t \in TASKS : \E c \in DOMAIN channels[t] :
        \E m \in DOMAIN channels[t][c].read_regions :
            /\ channels[t][c].read_regions[m].len = 4096
            /\ sending = <<>>
            /\ Cardinality(HoldersOf(channels[t][c].message_id_counter, m)) = 1

(***************************************************************************)
(* src/sync/mutex.rs                                                       *)
(***************************************************************************)
Threads == 1..NumThreads

\* AtomicBool::compare_and_swap(current, new, order): stores new when the
\* value is current; returns the PREVIOUS value either way.
compare_and_swap(value, current, new) ==
    [prev |-> value, next |-> IF value = current THEN new ELSE value]

\* SpinMutex::try_lock: the result of compare_and_swap(false, true) is
\* returned as it is.
try_lock(l) ==
    LET cas == compare_and_swap(l, FALSE, TRUE)
    IN  [ret |-> cas.prev, lock |-> cas.next]

\* SpinMutex::INIT
MutexInit == MutexIdle /\ KernelInit /\ SmpIdle /\ FdtIdle

\* A thread calls lock(): it is about to evaluate the loop condition.
MCallLock(t) ==
    /\ tpc[t] = "idle"
    /\ tpc' = [tpc EXCEPT ![t] = "lock"]
    /\ UNCHANGED <<mutex, tret, tset>>
    /\ UNCHANGED <<kernel_vars, smp_vars, fdt_vars>>

\* lock(): `while !self.try_lock()`: one try_lock; leave the loop when it
\* returned true.
MLockTry(t) ==
    /\ tpc[t] = "lock"
    /\ LET r == try_lock(mutex)
       IN  /\ mutex' = r.lock
           /\ tret' = [tret EXCEPT ![t] = r.ret]
           /\ tset' = [tset EXCEPT ![t] = (mutex = FALSE /\ r.lock = TRUE)]
           /\ tpc' = [tpc EXCEPT ![t] = IF r.ret THEN "cs" ELSE "spin"]
    /\ UNCHANGED <<kernel_vars, smp_vars, fdt_vars>>

\* lock(): the loop body, spin_loop_hint().
MSpin(t) ==
    /\ tpc[t] = "spin"
    /\ tpc' = [tpc EXCEPT ![t] = "lock"]
    /\ UNCHANGED <<mutex, tret, tset>>
    /\ UNCHANGED <<kernel_vars, smp_vars, fdt_vars>>

\* A thread calls try_lock() itself: it owns the lock when it got true.
MTryLock(t) ==
    /\ tpc[t] = "idle"
    /\ LET r == try_lock(mutex)
       IN  /\ mutex' = r.lock
           /\ tret' = [tret EXCEPT ![t] = r.ret]
           /\ tset' = [tset EXCEPT ![t] = (mutex = FALSE /\ r.lock = TRUE)]
           /\ tpc' = [tpc EXCEPT ![t] = IF r.ret THEN "cs" ELSE "idle"]
    /\ UNCHANGED <<kernel_vars, smp_vars, fdt_vars>>

\* unlock(): called by the owner only (it is an unsafe fn); stores false.
MUnlock(t) ==
    /\ tpc[t] = "cs"
    /\ mutex' = FALSE
    /\ tpc' = [tpc EXCEPT ![t] = "idle"]
    /\ UNCHANGED <<tret, tset>>
    /\ UNCHANGED <<kernel_vars, smp_vars, fdt_vars>>

MutexNext ==
    \E t \in Threads :
        \/ MCallLock(t)
        \/ MLockTry(t)
        \/ MSpin(t)
        \/ MTryLock(t)
        \/ MUnlock(t)

SpecMutex == MutexInit /\ [][MutexNext]_vars

(***************************************************************************)
(* C2: the spin lock gives mutual exclusion: at most one thread is in the  *)
(* critical section (returned from lock(), or got true from try_lock(),    *)
(* and has not called unlock() yet).                                       *)
(***************************************************************************)
InCriticalSection(t) == tpc[t] = "cs"

C2_MutualExclusion ==
    \A s, t \in Threads : (InCriticalSection(s) /\ InCriticalSection(t)) => s = t

(***************************************************************************)
(* create_channel on several harts at once (checked under SpecSMP).        *)
(* Hart h runs the call of task h. A step is one statement of              *)
(* create_channel; the task locks are SpinMutexes, taken by the loop of    *)
(* SpinMutex::lock, one try_lock per step. The caller's own record is      *)
(* locked by the system-call dispatch before create_channel runs and       *)
(* unlocked after it (specification, section 5; not among the source       *)
(* files). Two harts that are both let into the same record touch it in    *)
(* some order, statement by statement.                                     *)
(***************************************************************************)
Harts == TASKS

SetPc(h, pc) == [hart EXCEPT ![h].pc = pc]

Return(h, pc, ret) == [hart EXCEPT ![h].pc = pc, ![h].ret = ret]

\* The fields of the task table no statement of create_channel touches.
SmpFrame == UNCHANGED <<mutex_vars, fdt_vars, promiscuous, memory_manager, frames,
                        memory, sending, panicked>>

\* Task h, Running, enters create_channel(to): the dispatch is about to lock
\* the caller's record.
SmpDispatch(h, to) ==
    /\ hart[h].pc = "idle"
    /\ state[h] = "Running"
    /\ hart' = [hart EXCEPT ![h].pc = "lock_own", ![h].to = to]
    /\ UNCHANGED <<state, channels, message_queue, incoming_channel_request,
                   counters, task_lock>>
    /\ SmpFrame

\* The dispatch locks the caller's record: one round of `while !self.try_lock()`.
SmpLockOwn(h) ==
    /\ hart[h].pc = "lock_own"
    /\ LET r == try_lock(task_lock[h])
       IN  /\ task_lock' = [task_lock EXCEPT ![h] = r.lock]
           /\ hart' = SetPc(h, IF r.ret THEN "check" ELSE "lock_own")
    /\ UNCHANGED <<state, channels, message_queue, incoming_channel_request, counters>>
    /\ SmpFrame

\* `if current_tid == to` and `TASKS.get(to)`
SmpCheck(h) ==
    /\ hart[h].pc = "check"
    /\ hart' = IF h = hart[h].to THEN Return(h, "unlock_own", Err(InvalidArgument(0)))
               ELSE IF hart[h].to \notin TASKS
                    THEN Return(h, "unlock_own", Err(InvalidRecipient))
                    ELSE SetPc(h, "lock_to")
    /\ UNCHANGED <<state, channels, message_queue, incoming_channel_request,
                   counters, task_lock>>
    /\ SmpFrame

\* `let mut to_task = to_task.lock();`: one round of `while !self.try_lock()`,
\* the caller's own lock being held, whatever the order of the two Tids.
SmpLockTo(h) ==
    /\ hart[h].pc = "lock_to"
    /\ LET r == try_lock(task_lock[hart[h].to])
       IN  /\ task_lock' = [task_lock EXCEPT ![hart[h].to] = r.lock]
           /\ hart' = SetPc(h, IF r.ret THEN "dead" ELSE "lock_to")
    /\ UNCHANGED <<state, channels, message_queue, incoming_channel_request, counters>>
    /\ SmpFrame

\* `if to_task.state.is_dead()`
SmpDeadCheck(h) ==
    /\ hart[h].pc = "dead"
    /\ hart' = IF state[hart[h].to] = "Dead"
               THEN Return(h, "unlock_to", Err(InvalidRecipient))
               ELSE SetPc(h, "alloc")
    /\ UNCHANGED <<state, channels, message_queue, incoming_channel_request,
                   counters, task_lock>>
    /\ SmpFrame

\* `let counter = ..; let from_channel_id = ..; let to_channel_id = ..;`
SmpAlloc(h) ==
    /\ hart[h].pc = "alloc"
    /\ counters' = Append(counters, 0)
    /\ hart' = [hart EXCEPT
                   ![h].pc = "unblock",
                   ![h].counter = Len(counters) + 1,
                   ![h].from_channel_id = NextChannelId(channels[h]),
                   ![h].to_channel_id = NextChannelId(channels[hart[h].to])]
    /\ UNCHANGED <<state, channels, message_queue, incoming_channel_request, task_lock>>
    /\ SmpFrame

\* `if from.incoming_channel_request.remove(&to) { to_task.state = Running }`
SmpUnblock(h) ==
    /\ hart[h].pc = "unblock"
    /\ incoming_channel_request' =
          [incoming_channel_request EXCEPT ![h] = @ \ {hart[h].to}]
    /\ state' = IF RequestPending(h, hart[h].to)
                THEN [state EXCEPT ![hart[h].to] = "Running"]
                ELSE state
    /\ hart' = SetPc(h, "insert_from")
    /\ UNCHANGED <<channels, message_queue, counters, task_lock>>
    /\ SmpFrame

\* `from.channels.insert(from_channel_id, from_channel);`
SmpInsertFrom(h) ==
    /\ hart[h].pc = "insert_from"
    /\ channels' =
          [channels EXCEPT ![h] =
              Insert(@, hart[h].from_channel_id,
                     FromChannel(hart[h].to, hart[h].to_channel_id, hart[h].counter))]
    /\ hart' = SetPc(h, "insert_to")
    /\ UNCHANGED <<state, message_queue, incoming_channel_request, counters, task_lock>>
    /\ SmpFrame

\* `to_task.channels.insert(to_channel_id, to_channel);`
SmpInsertTo(h) ==
    /\ hart[h].pc = "insert_to"
    /\ channels' =
          [channels EXCEPT ![hart[h].to] =
              Insert(@, hart[h].to_channel_id,
                     ToChannel(h, hart[h].from_channel_id, hart[h].counter))]
    /\ hart' = SetPc(h, "push")
    /\ UNCHANGED <<state, message_queue, incoming_channel_request, counters, task_lock>>
    /\ SmpFrame

\* `to_task.message_queue.push_front(..ChannelOpened(to_channel_id)..)` and
\* `SyscallResult::Ok(from_channel_id.value())`
SmpPush(h) ==
    /\ hart[h].pc = "push"
    /\ message_queue' =
          [message_queue EXCEPT ![hart[h].to] =
              push_front(@, [sender |-> "kernel",
                             msg |-> <<"ChannelOpened", hart[h].to_channel_id>>])]
    /\ hart' = Return(h, "unlock_to", Ok(<<hart[h].from_channel_id>>))
    /\ UNCHANGED <<state, channels, incoming_channel_request, counters, task_lock>>
    /\ SmpFrame

\* The guard `to_task` is dropped on return: SpinMutex::unlock stores false.
SmpUnlockTo(h) ==
    /\ hart[h].pc = "unlock_to"
    /\ task_lock' = [task_lock EXCEPT ![hart[h].to] = FALSE]
    /\ hart' = SetPc(h, "unlock_own")
    /\ UNCHANGED <<state, channels, message_queue, incoming_channel_request, counters>>
    /\ SmpFrame

\* The dispatch unlocks the caller's record; the call has returned.
SmpUnlockOwn(h) ==
    /\ hart[h].pc = "unlock_own"
    /\ task_lock' = [task_lock EXCEPT ![h] = FALSE]
    /\ hart' = SetPc(h, "done")
    /\ UNCHANGED <<state, channels, message_queue, incoming_channel_request, counters>>
    /\ SmpFrame

\* No hart has entered a call yet.
AllIdle == \A h \in Harts : hart[h].pc = "idle"

SmpNext ==
    \/ AllIdle /\ \E from \in TASKS, to \in TASKS : RequestChannel(from, to)
    \/ \E h \in Harts, to \in Tids : SmpDispatch(h, to)
    \/ \E h \in Harts : SmpLockOwn(h)
    \/ \E h \in Harts : SmpCheck(h)
    \/ \E h \in Harts : SmpLockTo(h)
    \/ \E h \in Harts : SmpDeadCheck(h)
    \/ \E h \in Harts : SmpAlloc(h)
    \/ \E h \in Harts : SmpUnblock(h)
    \/ \E h \in Harts : SmpInsertFrom(h)
    \/ \E h \in Harts : SmpInsertTo(h)
    \/ \E h \in Harts : SmpPush(h)
    \/ \E h \in Harts : SmpUnlockTo(h)
    \/ \E h \in Harts : SmpUnlockOwn(h)

SpecSMP == Init /\ [][SmpNext]_vars

\* Hart h has returned from `to_task.lock()` and not dropped the guard yet:
\* it holds the lock of its own record and that of its target.
HoldsBoth(h) ==
    hart[h].pc \in {"dead", "alloc", "unblock", "insert_from", "insert_to", "push",
                    "unlock_to"}

(***************************************************************************)
(* C6: when create_channel needs the target's lock while the caller's own  *)
(* lock is held, the two locks are taken in ascending Tid order: a hart    *)
(* that holds both has taken its own, the first, as the lower Tid.         *)
(***************************************************************************)
C6_AscendingLockOrder ==
    \A h \in Harts : HoldsBoth(h) => h < hart[h].to

\* Tasks a and b have each run create_channel towards the other, both calls
\* have returned, and nothing else has happened since the start.
CreatedBothWays(a, b) ==
    /\ a # b
    /\ hart[a].pc = "done" /\ hart[a].to = b
    /\ hart[b].pc = "done" /\ hart[b].to = a
    /\ \A h \in Harts \ {a, b} : hart[h].pc = "idle"
    /\ \A t \in TASKS : \A i \in DOMAIN message_queue[t] :
          message_queue[t][i].msg[1] # "ChannelRequest"

(***************************************************************************)
(* C7: when A runs create_channel(B) while B runs create_channel(A), from  *)
(* two tasks with no channels, both calls return Ok and each task ends     *)
(* with exactly two endpoints, the four forming two cross-referenced       *)
(* pairs, and with incoming_channel_request empty.                         *)
(***************************************************************************)
C7_ConcurrentCreateChannel ==
    \A a, b \in TASKS :
        CreatedBothWays(a, b)
        => /\ hart[a].ret.tag = "Ok"
           /\ hart[b].ret.tag = "Ok"
           /\ Cardinality(DOMAIN channels[a]) = 2
           /\ Cardinality(DOMAIN channels[b]) = 2
           /\ \A c \in DOMAIN channels[a] :
                 /\ channels[a][c].other_task = b
                 /\ channels[a][c].other_channel_id \in DOMAIN channels[b]
                 /\ channels[b][channels[a][c].other_channel_id].other_task = a
                 /\ channels[b][channels[a][c].other_channel_id].other_channel_id = c
                 /\ channels[b][channels[a][c].other_channel_id].message_id_counter
                       = channels[a][c].message_id_counter
           /\ channels[a][0].message_id_counter # channels[a][1].message_id_counter
           /\ incoming_channel_request[a] = {}
           /\ incoming_channel_request[b] = {}

(***************************************************************************)
(* C11: request_channel and create_channel evaluate their failure          *)
(* conditions in order, first match winning: a target equal to the caller  *)
(* gives Err(InvalidArgument(0)); otherwise a target absent from the task  *)
(* table gives Err(InvalidRecipient); otherwise a Dead target gives        *)
(* Err(InvalidRecipient); and, for request_channel only, a live target     *)
(* that is not promiscuous gives Ok(ChannelRequestDenied), the caller      *)
(* still Running and the target's message_queue and                        *)
(* incoming_channel_request unchanged.                                     *)
(***************************************************************************)
FailuresInOrder ==
    \A from \in TASKS, to \in Tids :
        LET req == request_channel_result(from, to)
            cre == create_channel_result(from, to)
        IN  /\ to = from => (req = Err(InvalidArgument(0)) /\ cre = Err(InvalidArgument(0)))
            /\ (to # from /\ to \notin TASKS)
                  => (req = Err(InvalidRecipient) /\ cre = Err(InvalidRecipient))
            /\ (to # from /\ to \in TASKS) =>
                  /\ state[to] = "Dead"
                        => (req = Err(InvalidRecipient) /\ cre = Err(InvalidRecipient))
                  /\ state[to] # "Dead" => cre.tag = "Ok"
                  /\ (state[to] # "Dead" /\ ~promiscuous[to])
                        => req = Ok(<<"ChannelRequestDenied">>)
                  /\ (state[to] # "Dead" /\ promiscuous[to]) => req = Ok(<<"default">>)

C11_FailuresInOrder ==
    /\ []FailuresInOrder
    /\ [][\A from \in TASKS, to \in TASKS :
             (/\ request_channel_result(from, to) = Ok(<<"ChannelRequestDenied">>)
              /\ RequestChannel(from, to))
             => /\ state'[from] = "Running"
                /\ message_queue'[to] = message_queue[to]
                /\ incoming_channel_request'[to] = incoming_channel_request[to]]_vars

\* All the cases are there at once: a caller that can call, a Dead task that
\* is not promiscuous, a live task that is, and a request that went through.
C11_Witness ==
    /\ sending = <<>> /\ ~panicked
    /\ \E from, dead, to, blocked \in TASKS :
          /\ state[from] = "Running"
          /\ state[dead] = "Dead" /\ ~promiscuous[dead]
          /\ state[to] # "Dead" /\ promiscuous[to]
          /\ state[blocked] = "Blocked" /\ blocked \in incoming_channel_request[to]

(***************************************************************************)
(* C12: read_message on a valid endpoint returns (0, 0, 0) when the        *)
(* endpoint's inbound map is empty, and otherwise (message_id, start       *)
(* address, declared len) of the inbound entry with the smallest           *)
(* MessageId; it changes no state, so its result changes only with the     *)
(* endpoint's inbound map (a send or a retire).                            *)
(***************************************************************************)
ReadsSmallest ==
    \A t \in TASKS : \A c \in DOMAIN channels[t] :
        LET inbound == channels[t][c].read_regions
            res == read_message_result(t, c)
        IN  /\ res.tag = "Ok"
            /\ inbound = EmptyMap => res.val = <<0, 0, 0>>
            /\ inbound # EmptyMap =>
                  /\ res.val[1] \in DOMAIN inbound
                  /\ \A m \in DOMAIN inbound : res.val[1] <= m
                  /\ res.val[2] = inbound[res.val[1]].range.start
                  /\ res.val[3] = inbound[res.val[1]].len

C12_ReadMessage ==
    /\ []ReadsSmallest
    /\ [][\A t \in TASKS : \A c \in DOMAIN channels[t] :
             /\ ReadMessage(t, c) => UNCHANGED kernel_vars
             /\ (/\ c \in DOMAIN channels'[t]
                 /\ channels'[t][c].read_regions = channels[t][c].read_regions)
                => read_message_result(t, c)' = read_message_result(t, c)]_vars

\* An endpoint holds two inbound messages, the one with the greater id mapped
\* at the lower address (it arrived first); read_message returns the other.
C12_Witness ==
    \E t \in TASKS : \E c \in DOMAIN channels[t] :
        \E m, n \in DOMAIN channels[t][c].read_regions :
            /\ m < n
            /\ channels[t][c].read_regions[n].range.start
                  < channels[t][c].read_regions[m].range.start
            /\ read_message_result(t, c).val[1] = m

(***************************************************************************)
(* C13: retire_message(channel_id, message_id) returns Ok exactly when     *)
(* message_id is a key of the caller endpoint's inbound map, and an id     *)
(* that is only in the outbound map is rejected with                       *)
(* Err(InvalidArgument(1)); on Ok the entry is removed and its region is   *)
(* unmapped and freed, so that read_message does not return that id and a  *)
(* second retire of it returns Err(InvalidArgument(1)); the id is back in  *)
(* the inbound map only when a send_message delivers it there.             *)
(***************************************************************************)
RetireAccepts ==
    \A t \in TASKS : \A c \in DOMAIN channels[t] : \A m \in MessageIds :
        LET res == retire_message_result(t, c, m)
        IN  /\ res = Ok(<<>>) <=> m \in DOMAIN channels[t][c].read_regions
            /\ m \notin DOMAIN channels[t][c].read_regions
                  => res = Err(InvalidArgument(1))

RECURSIVE SumFrames(_)
SumFrames(S) ==
    IF S = {} THEN 0
    ELSE LET b == CHOOSE x \in S : TRUE IN frames[b] + SumFrames(S \ {b})

\* The physical frames allocated for channel regions.
FramesAllocated == SumFrames(DOMAIN frames)

\* ceil(size / 4096)
IsCeilPages(p, size) == p * 4096 >= size /\ (p = 0 \/ (p - 1) * 4096 < size)

C14_FrameConservation ==
    [][/\ \A b \in DOMAIN frames : b \in DOMAIN frames' => frames'[b] = frames[b]
       /\ \A t \in TASKS : \A c \in DOMAIN channels[t] :
             /\ \A size \in Sizes :
                   CreateMessage(t, c, size)
                   => LET m == create_message_result(t, c, size).val[1]
                          start == channels'[t][c].write_regions[m].start
                          b == memory_manager'[t][start].backing
                      IN  /\ b \notin DOMAIN frames
                          /\ DOMAIN frames' = DOMAIN frames \cup {b}
                          /\ IsCeilPages(frames'[b], size)
                          /\ FramesAllocated' = FramesAllocated + frames'[b]
             /\ \A m \in DOMAIN channels[t][c].read_regions :
                   RetireMessage(t, c, m)
                   => LET start == channels[t][c].read_regions[m].range.start
                          b == memory_manager[t][start].backing
                      IN  /\ b \in DOMAIN frames
                          /\ DOMAIN frames' = DOMAIN frames \ {b}
                          /\ FramesAllocated' = FramesAllocated - frames[b]
       /\ (SendDetaches \/ SendAttaches) => frames' = frames
       /\ frames' # frames
             => \/ \E t \in TASKS : TaskDeath(t)
                \/ \E t \in TASKS : \E c \in DOMAIN channels[t] :
                      \/ \E size \in Sizes : CreateMessage(t, c, size)
                      \/ \E m \in DOMAIN channels[t][c].read_regions :
                            RetireMessage(t, c, m)]_vars

\* One message of a pair has gone from create_message to retire_message
\* while a second one was created: the pair has handed out two ids, the one
\* backing left is that of the message still in an outbound map.
C14_Witness ==
    /\ sending = <<>> /\ ~panicked
    /\ Cardinality(DOMAIN frames) = 1
    /\ \E t \in TASKS : \E c \in DOMAIN channels[t] :
          LET e == channels[t][c]
          IN  /\ counters[e.message_id_counter] = 2
              /\ state[t] # "Dead" /\ state[e.other_task] # "Dead"
              /\ Cardinality(DOMAIN e.write_regions) = 1
              /\ e.read_regions = EmptyMap
              /\ channels[e.other_task][e.other_channel_id].write_regions = EmptyMap
              /\ channels[e.other_task][e.other_channel_id].read_regions = EmptyMap
              /\ Cardinality(DOMAIN memory_manager[t]) = 1
              /\ memory_manager[e.other_task] = EmptyMap

(***************************************************************************)
(* C15: every error return other than send_message's length mismatch       *)
(* leaves all state unchanged: the errors of request_channel and           *)
(* create_channel, InvalidArgument(0) of create_message, send_message,     *)
(* read_message and retire_message, InvalidArgument(1) of send_message and *)
(* of retire_message leave every task's channels with their outbound and   *)
(* inbound maps, message queue, incoming_channel_request, state, mapped    *)
(* regions and the message-id counters as they were.                       *)
(***************************************************************************)
AllAsBefore ==
    UNCHANGED <<state, channels, message_queue, incoming_channel_request,
                memory_manager, counters, frames>>

\* The step is a call that returns one of the errors.
ErrorReturned ==
    \/ \E from \in TASKS, to \in Tids :
          \/ request_channel_result(from, to).tag = "Err" /\ RequestChannel(from, to)
          \/ create_channel_result(from, to).tag = "Err" /\ CreateChannel(from, to)
    \/ \E t \in TASKS : \E c \in ChannelArgs(t) :
          \/ \E size \in Sizes :
                /\ create_message_result(t, c, size) = Err(InvalidArgument(0))
                /\ CreateMessage(t, c, size)
          \/ read_message_result(t, c) = Err(InvalidArgument(0)) /\ ReadMessage(t, c)
          \/ \E m \in MessageArgs(t, c) :
                \/ \E len \in Lens :
                      /\ send_message_result(t, c, m, len)
                            \in {Err(InvalidArgument(0)), Err(InvalidArgument(1))}
                      /\ SendMessage(t, c, m, len)
                \/ /\ retire_message_result(t, c, m)
                         \in {Err(InvalidArgument(0)), Err(InvalidArgument(1))}
                   /\ RetireMessage(t, c, m)

C15_ErrorsChangeNothing == [][AllAsBefore \/ ~ErrorReturned]_vars

\* A caller for which every one of the errors can be had: it runs, one of its
\* endpoints holds an outbound and an inbound message with different ids,
\* a channel id names none of its endpoints, and a task is Dead.
C15_Witness ==
    /\ sending = <<>> /\ ~panicked
    /\ \E dead \in TASKS : state[dead] = "Dead"
    /\ \E t \in TASKS :
          /\ state[t] = "Running"
          /\ ChannelIds \ DOMAIN channels[t] # {}
          /\ \E c \in DOMAIN channels[t] :
                \E m \in DOMAIN channels[t][c].write_regions :
                   \E n \in DOMAIN channels[t][c].read_regions : m # n

(***************************************************************************)
(* C16: queue ordering. request_channel appends its ChannelRequest at the  *)
(* tail of the target's message_queue; create_channel(from, to) puts       *)
(* (kernel, ChannelOpened(to_cid)) at the head of to's queue, to_cid being *)
(* the id of the endpoint it has just installed in to, the entries queued  *)
(* before keeping their order behind it; and a queue changes in no other   *)
(* way: create_channel is the only operation that inserts at the head.     *)
(***************************************************************************)
IsTail(old, new) == Len(new) = Len(old) + 1 /\ SubSeq(new, 1, Len(old)) = old

IsHead(old, new) == Len(new) = Len(old) + 1 /\ SubSeq(new, 2, Len(new)) = old

C16_QueueOrdering ==
    [][\A t \in TASKS :
          message_queue'[t] # message_queue[t]
          => LET old == message_queue[t]
                 new == message_queue'[t]
             IN  /\ \A u \in TASKS \ {t} : message_queue'[u] = message_queue[u]
                 /\ \/ /\ IsTail(old, new)
                       /\ new[Len(new)].sender = "kernel"
                       /\ new[Len(new)].msg[1] = "ChannelRequest"
                       /\ RequestChannel(new[Len(new)].msg[2], t)
                    \/ /\ IsHead(old, new)
                       /\ new[1].sender = "kernel"
                       /\ new[1].msg[1] = "ChannelOpened"
                       /\ new[1].msg[2] \in DOMAIN channels'[t]
                       /\ new[1].msg[2] \notin DOMAIN channels[t]
                       /\ CreateChannel(channels'[t][new[1].msg[2]].other_task, t)]_vars

\* A queue with a ChannelOpened at its head, ahead of a ChannelRequest that
\* was there before it.
C16_Witness ==
    \E t \in TASKS :
        /\ Len(message_queue[t]) = 2
        /\ message_queue[t][1].msg[1] = "ChannelOpened"
        /\ message_queue[t][2].msg[1] = "ChannelRequest"

\* The ranges recorded in the maps of an endpoint, and of all: <<task, range>>.
RangesOf(t, c) ==
    {<<t, channels[t][c].write_regions[m]>> : m \in DOMAIN channels[t][c].write_regions}
    \cup
    {<<t, channels[t][c].read_regions[m].range>> :
        m \in DOMAIN channels[t][c].read_regions}

RecordedRanges ==
    UNION {UNION {RangesOf(t, c) : c \in DOMAIN channels[t]} : t \in TASKS}

\* The range is mapped in its holder, on a live backing that spans it and is
\* mapped in no other task.
MappedInHolder(t, range) ==
    /\ range.start \in DOMAIN memory_manager[t]
    /\ LET b == memory_manager[t][range.start].backing
       IN  /\ b \in DOMAIN frames
           /\ frames[b] * KiB4 = range.end - range.start
           /\ \A u \in TASKS \ {t} : b \notin BackingsOf(memory_manager[u])

C18_TryLockReturnsAcquired ==
    [][\A t \in Threads :
          /\ (MLockTry(t) \/ MTryLock(t))
                => /\ tret'[t] = (mutex = FALSE /\ mutex' = TRUE)
                   /\ mutex = TRUE => (mutex' = TRUE /\ tret'[t] = FALSE)
                   /\ mutex = FALSE => (mutex' = TRUE /\ tret'[t] = TRUE)
          /\ (MLockTry(t) /\ tpc'[t] = "cs") => (mutex = FALSE /\ mutex' = TRUE)]_vars

(***************************************************************************)
(* C19: ChannelId allocation never collides: under any interleaving of     *)
(* create_channel calls that involve the same task, every create_channel   *)
(* inserts in each of the two tasks at an id that is not a key of that     *)
(* task's channels map at that moment, so no existing endpoint is ever     *)
(* replaced.                                                               *)
(***************************************************************************)
C19_NoEndpointReplaced ==
    [][/\ \A h \in Harts :
             /\ SmpInsertFrom(h) => hart[h].from_channel_id \notin DOMAIN channels[h]
             /\ SmpInsertTo(h) => hart[h].to_channel_id \notin DOMAIN channels[hart[h].to]
       /\ \A t \in TASKS : \A c \in DOMAIN channels[t] :
             c \in DOMAIN channels'[t] /\ channels'[t][c] = channels[t][c]]_vars

-----------------------------------------------------------------------------
(***************************************************************************)
(* The device-tree reader, src/fdt/src/node.rs.                            *)
(*                                                                         *)
(* A structure block is a sequence of tokens.  One element of the          *)
(* sequence stands for one token with everything that belongs to it: a     *)
(* BEGIN_NODE with its NUL-terminated unit name and the padding after it,  *)
(* a PROP with its length, name offset, value and padding.  The cursor     *)
(* (`ptr`) is an index into the sequence; advancing past a token with its  *)
(* payload is adding one.  Strings are sequences of one-character strings, *)
(* so that splitting at '/' and at '@' is computed.                        *)
(***************************************************************************)
FDT_BEGIN_NODE == 1
FDT_END_NODE == 2
FDT_PROP == 3
FDT_NOP == 4
FDT_END == 5

\* Bounds of the trees whose structure blocks are read.
MaxChildren == 2
MaxProps == 1

\* The index of the first `ch` in the string `s`, 0 when there is none.
IndexOf(s, ch) ==
    IF \E i \in 1..Len(s) : s[i] = ch
    THEN CHOOSE i \in 1..Len(s) : s[i] = ch /\ \A j \in 1..(i - 1) : s[j] # ch
    ELSE 0

\* str::splitn(2, ch): the part before the first `ch`, and the rest if any.
splitn(s, ch) ==
    LET i == IndexOf(s, ch) IN
    IF i = 0 THEN [first |-> s, more |-> FALSE, rest |-> <<>>]
    ELSE [first |-> SubSeq(s, 1, i - 1), more |-> TRUE,
          rest |-> SubSeq(s, i + 1, Len(s))]

\* str::split(ch).next(): the part before the first `ch`.
split_first(s, ch) == splitn(s, ch).first

\* The token under the cursor; the block is read only inside itself.
Token(blob, ptr) == blob[ptr].token

\* header.off_dt_struct + header.size_dt_struct, as a cursor position.
end_of_struct(blob) == Len(blob) + 1

\* advance_ptr over one token cell.
advance_ptr(ptr) == ptr + 1

\* parse_prop: panics unless the cursor is at a PROP, else steps over it.
parse_prop(blob, ptr) ==
    IF Token(blob, ptr) # FDT_PROP THEN [ptr |-> ptr, panic |-> TRUE]
    ELSE [ptr |-> advance_ptr(ptr), panic |-> FALSE]

RECURSIVE SkipProps(_, _)
\* while token == FDT_PROP { parse_prop(ptr, header) }
SkipProps(blob, ptr) ==
    IF Token(blob, ptr) = FDT_PROP
    THEN SkipProps(blob, parse_prop(blob, ptr).ptr)
    ELSE ptr

RECURSIVE SkipNops(_, _)
\* while token == FDT_NOP { advance one cell }
SkipNops(blob, ptr) ==
    IF Token(blob, ptr) = FDT_NOP
    THEN SkipNops(blob, advance_ptr(ptr))
    ELSE ptr

RECURSIVE skip_current_node(_, _)
RECURSIVE SkipNodes(_, _)
\* skip_current_node: the two assert_eq! are the panics.
skip_current_node(blob, ptr) ==
    IF Token(blob, ptr) # FDT_BEGIN_NODE THEN [ptr |-> ptr, panic |-> TRUE]
    ELSE LET after_props == SkipProps(blob, advance_ptr(ptr))
             nodes == SkipNodes(blob, after_props)
             after_nops == SkipNops(blob, nodes.ptr)
         IN  IF nodes.panic THEN nodes
             ELSE IF Token(blob, after_nops) # FDT_END_NODE
                  THEN [ptr |-> after_nops, panic |-> TRUE]
                  ELSE [ptr |-> advance_ptr(after_nops), panic |-> FALSE]

\* while token == FDT_BEGIN_NODE { skip_current_node(ptr, header) }
SkipNodes(blob, ptr) ==
    IF Token(blob, ptr) = FDT_BEGIN_NODE
    THEN LET r == skip_current_node(blob, ptr) IN
         IF r.panic THEN r ELSE SkipNodes(blob, r.ptr)
    ELSE [ptr |-> ptr, panic |-> FALSE]

\* What find_node returns, with the cursor it leaves behind.
NoneAt(ptr) == [some |-> FALSE, node |-> 0, ptr |-> ptr, panic |-> FALSE]
SomeAt(ptr) == [some |-> TRUE, node |-> ptr, ptr |-> ptr, panic |-> FALSE]
PanicAt(ptr) == [some |-> FALSE, node |-> 0, ptr |-> ptr, panic |-> TRUE]

RECURSIVE find_node(_, _, _)
RECURSIVE FindInChildren(_, _, _)
RECURSIVE FindInNode(_, _, _)
\* find_node up to the search of the matched node's body.
find_node(blob, ptr, name) ==
    LET parts == splitn(name, "/")
        looking_for == parts.first
        node_ptr == SkipNops(blob, ptr)
    IN  IF Token(blob, node_ptr) # FDT_BEGIN_NODE THEN NoneAt(node_ptr)
        ELSE IF split_first(blob[node_ptr].name, "@") # looking_for
             THEN LET skipped == skip_current_node(blob, node_ptr) IN
                  IF skipped.panic THEN PanicAt(skipped.ptr)
                  ELSE NoneAt(skipped.ptr)
             ELSE IF ~parts.more THEN SomeAt(advance_ptr(node_ptr))
                  ELSE FindInNode(blob, advance_ptr(node_ptr), parts.rest)

\* while token == FDT_BEGIN_NODE { if let Some(p) = find_node(..) { return } }
FindInChildren(blob, ptr, next_part) ==
    IF Token(blob, ptr) = FDT_BEGIN_NODE
    THEN LET r == find_node(blob, ptr, next_part) IN
         IF r.some \/ r.panic THEN r ELSE FindInChildren(blob, r.ptr, next_part)
    ELSE NoneAt(ptr)

\* while *ptr < end_of_struct { props; children; nops; END_NODE }
FindInNode(blob, ptr, next_part) ==
    IF ~(ptr < end_of_struct(blob)) THEN NoneAt(ptr)
    ELSE LET children == FindInChildren(blob, SkipProps(blob, ptr), next_part)
             after_nops == SkipNops(blob, children.ptr)
         IN  IF children.some \/ children.panic THEN children
             ELSE IF Token(blob, after_nops) # FDT_END_NODE THEN NoneAt(after_nops)
                  ELSE FindInNode(blob, advance_ptr(after_nops), next_part)

(***************************************************************************)
(* Well-formed structure blocks: the blocks of small trees.  A node has a  *)
(* unit name, properties, then children; `nop` says where the block has a  *)
(* NOP token inside the node: after the name, after the properties, before *)
(* each child but the first, or before the END_NODE.  Siblings have        *)
(* different unit names.                                                   *)
(***************************************************************************)
UnitNames == {<<"a">>, <<"b">>, <<"a", "@", "1">>}
NopPlaces == {"none", "name", "props", "children", "end"}

Cell(token) == [token |-> token, name |-> <<>>]
BeginNode(name) == [token |-> FDT_BEGIN_NODE, name |-> name]
Node(name, nprops, nop, children) ==
    [name |-> name, nprops |-> nprops, nop |-> nop, children |-> children]

\* The sequences of at most n nodes of S, no two with the same unit name.
Siblings(S, n) ==
    {cs \in UNION {[1..k -> S] : k \in 0..n} :
        \A i, j \in DOMAIN cs : cs[i].name = cs[j].name => i = j}

LeafNodes == {Node(n, 0, "none", <<>>) : n \in {<<"a">>, <<"b">>}}
InnerNodes ==
    {Node(n, p, k, cs) : n \in UnitNames, p \in 0..MaxProps, k \in NopPlaces,
                         cs \in Siblings(LeafNodes, MaxChildren)}
RootNodes ==
    {Node(<<>>, 0, "none", cs) : cs \in Siblings(InnerNodes, MaxChildren) \ {<<>>}}

NopIf(cond) == IF cond THEN <<Cell(FDT_NOP)>> ELSE <<>>

RECURSIVE Flatten(_)
RECURSIVE FlattenAll(_, _, _)
\* The tokens of a node: BEGIN_NODE, properties, children, END_NODE.
Flatten(node) ==
    <<BeginNode(node.name)>>
    \o NopIf(node.nop = "name")
    \o [i \in 1..node.nprops |-> Cell(FDT_PROP)]
    \o NopIf(node.nop = "props")
    \o FlattenAll(node.children, 1, node.nop = "children")
    \o NopIf(node.nop = "end")
    \o <<Cell(FDT_END_NODE)>>

FlattenAll(children, i, nops) ==
    IF i > Len(children) THEN <<>>
    ELSE NopIf(nops /\ i > 1) \o Flatten(children[i])
         \o FlattenAll(children, i + 1, nops)

\* The structure block of a tree: the root node, then END.
StructureBlock(root) == Flatten(root) \o <<Cell(FDT_END)>>

\* The paths asked for.
Paths ==
    {<<"/", "a">>, <<"/", "b">>, <<"/", "a", "/", "a">>, <<"/", "a", "/", "b">>,
     <<"/", "b", "/", "a">>, <<"/", "b", "/", "b">>}

RECURSIVE Components(_)
\* The components of a path, the text between its slashes.
Components(path) ==
    LET parts == splitn(path, "/") IN
    IF parts.more THEN <<parts.first>> \o Components(parts.rest)
    ELSE <<parts.first>>

RECURSIVE NodeAt(_, _)
\* A node of the tree is at the path: each component is the unit name, up
\* to '@', of the next node on the way down from the root.
NodeAt(node, components) ==
    /\ split_first(node.name, "@") = components[1]
    /\ \/ Len(components) = 1
       \/ \E i \in 1..Len(node.children) : NodeAt(node.children[i], Tail(components))

FdtInit ==
    \E root \in RootNodes, path \in Paths :
        fdt = [pc |-> "call", root |-> root, blob |-> StructureBlock(root),
               path |-> path]

\* One call of find_node on the block, from its first token.
FdtFindNode ==
    /\ fdt.pc = "call"
    /\ fdt' = [pc |-> "returned", root |-> fdt.root, blob |-> fdt.blob,
               path |-> fdt.path, result |-> find_node(fdt.blob, 1, fdt.path)]
    /\ UNCHANGED <<kernel_vars, mutex_vars, smp_vars>>

FdtNext == FdtFindNode

InitFdt == KernelInit /\ memory = MemorySmall /\ MutexIdle /\ SmpIdle /\ FdtInit

SpecFdt == InitFdt /\ [][FdtNext]_vars

\* C20: for every well-formed structure block, find_node returns a node
\* exactly when the tree has a node at the path, and never panics.
C20_FindNode ==
    fdt.pc = "returned" =>
        /\ ~fdt.result.panic
        /\ fdt.result.some <=> NodeAt(fdt.root, Components(fdt.path))

=============================================================================
